---- MODULE Spec2Model ----
(***************************************************************************)
(* Model of the loki service worker (src/src/loki/service.cc): one         *)
(* loki_worker_t driven by prime_server's worker loop.  A request is taken *)
(* by work(), normalised by from_request(), validated by init_request(),   *)
(* then handled by route(), locate() or the 501 fall-through; the worker   *)
(* loop calls cleanup() after every request.                               *)
(***************************************************************************)
EXTENDS Integers, Sequences, FiniteSets, TLC

\* ---------------------------------------------------------------- bounds
\* service_limits.max_route_locations of the configuration
max_route_locations == 3
\* longest location list a request carries: one more than the route limit
MaxLen == max_route_locations + 1

\* ----------------------------------------------------------------- input
\* well-formed location entries (a lat/lon pair) and one malformed entry
Points == {"A", "C", "D"}
Malformed == "X"
Entries == Points \cup {Malformed}

Paths == {"/route", "/viaroute", "/locate", "/nearest", "/other"}
Costings == {"", "auto", "pedestrian", "multimodal", "yak"}

LocSeqs == UNION {[1..n -> Entries] : n \in 0..MaxLen}

\* a costing option tree is a set of <<path, value>> leaves; "g.a" and "g.b"
\* are the fields of the nested group "g"
Top(path) == CASE path = "g.a" -> "g" [] path = "g.b" -> "g" [] OTHER -> path
\* override trees a request carries under costing_options.<mode>
Overrides == {{}, {<<"k", 9>>}, {<<"g.a", 9>>}, {<<"n", 9>>}}

Req(p, j, hl, l, hlo, lo, c, ho, o, os) ==
  [path |-> p, json |-> j, hasLocations |-> hl, locations |-> l,
   hasLoc |-> hlo, loc |-> lo, costing |-> c,
   hasOptions |-> ho, options |-> o, osrm |-> os]

\* the http requests the worker is fed: a payload that fails to parse, a
\* payload without a location field, a payload with `locations`, and (for
\* the osrm compatible action) a payload with `loc`; some also carry costing
\* options for their mode, some a field named `osrm` of their own
Requests ==
  {Req(p, "bad", FALSE, <<>>, FALSE, <<>>, "", FALSE, {}, FALSE) : p \in Paths}
  \cup
  {Req(p, "ok", FALSE, <<>>, FALSE, <<>>, c, FALSE, {}, FALSE) :
      p \in Paths, c \in Costings}
  \cup
  {Req(p, "ok", TRUE, s, FALSE, <<>>, c, FALSE, {}, FALSE) :
      p \in Paths \ {"/viaroute"}, s \in LocSeqs, c \in Costings}
  \cup
  {Req("/viaroute", "ok", FALSE, <<>>, TRUE, s, c, FALSE, {}, FALSE) :
      s \in LocSeqs, c \in Costings}
  \cup
  {Req(p, "ok", TRUE, <<"A">>, FALSE, <<>>, c, TRUE, o, FALSE) :
      p \in {"/route", "/locate", "/nearest"},
      c \in {"auto", "pedestrian", "multimodal"}, o \in Overrides}
  \cup
  {Req("/viaroute", "ok", FALSE, <<>>, TRUE, <<"A", "A">>, c, TRUE, o, FALSE) :
      c \in {"auto", "pedestrian", "multimodal"}, o \in Overrides}
  \cup
  {Req(p, "ok", TRUE, s, FALSE, <<>>, "auto", FALSE, {}, TRUE) :
      p \in {"/route", "/locate"}, s \in LocSeqs}
  \cup
  {Req("/viaroute", "ok", FALSE, <<>>, TRUE, s, "auto", FALSE, {}, TRUE) :
      s \in LocSeqs}

NoRequest == Req("", "ok", FALSE, <<>>, FALSE, <<>>, "", FALSE, {}, FALSE)

\* --------------------------------------------------------- configuration
\* the ACTION table (ACTION is a TLA+ keyword): request path -> action type
ACTION_TABLE ==
  [p \in {"/route", "/viaroute", "/locate", "/nearest"} |->
     CASE p = "/route" -> "ROUTE"
       [] p = "/viaroute" -> "VIAROUTE"
       [] p = "/locate" -> "LOCATE"
       [] p = "/nearest" -> "NEAREST"]

\* costing methods registered with the factory by the constructor
Registered == {"auto", "auto_shorter", "bus", "bicycle", "pedestrian"}
\* modes with a costing_options.<mode> subtree in the configuration
costing_options == {"auto", "pedestrian"}
\* the default option tree of each costing_options.<mode>
costing_defaults ==
  [m \in costing_options |->
     {<<"k", IF m = "auto" THEN 1 ELSE 2>>, <<"g.a", 1>>, <<"g.b", 1>>}]
\* service_limits.max_distance.<mode> of the configuration
max_distance_cfg == [m \in {"auto", "pedestrian"} |-> IF m = "auto" THEN 20 ELSE 5]

\* ---------------------------------------------------------- collaborators
\* lowest-level tile of a point
TileId(p) == CASE p = "A" -> 1 [] p = "C" -> 2 [] p = "D" -> 3 [] OTHER -> 0
\* connectivity colour of a tile: tiles 1 and 3 are joined, tile 2 is an island
Colour(t) == IF t = 2 THEN 2 ELSE 1
\* GraphReader::AreConnected on the two tiles
AreConnected(a, b) == Colour(TileId(a)) = Colour(TileId(b))
Pos(p) == CASE p = "A" -> 0 [] p = "C" -> 1 [] p = "D" -> 10 [] OTHER -> 0
\* sqrt(DistanceApproximator::DistanceSquared(a, b))
path_distance(a, b) == IF Pos(a) >= Pos(b) THEN Pos(a) - Pos(b) ELSE Pos(b) - Pos(a)
\* loki::Search with the cost's edge filter: D lies on a footpath only
SearchOk(p, c) == ~(p = "D" /\ c = "auto")
\* candidate edges of the PathLocation a successful loki::Search returns:
\* under the pedestrian filter C correlates to no edge at all
Edges(p, c) == IF p = "C" /\ c = "pedestrian" THEN 0 ELSE 1
\* tile cache ceiling of the graph reader
MaxCachedTiles == 1
OverCommitted(tiles) == Cardinality(tiles) > MaxCachedTiles

\* --------------------------------------------------------------- results
\* an empty property tree
EmptyPt ==
  [hasLocations |-> FALSE, locations |-> <<>>, hasLoc |-> FALSE, loc |-> <<>>,
   costing |-> "", hasOptions |-> FALSE, options |-> {}, osrm |-> FALSE]

NoResponse ==
  [intermediate |-> FALSE, code |-> 0, msg |-> "", arg |-> "",
   entries |-> <<>>, correlated |-> <<>>, edges |-> <<>>, osrm |-> FALSE,
   payload |-> EmptyPt]

\* http_response_t(code, ..., body) answered to the client
http_response(code, msg, arg) ==
  [NoResponse EXCEPT !.code = code, !.msg = msg, !.arg = arg]

E_NOTFOUND == "Try any of: '/route' '/locate'"
E_JSON == "read_json"
E_NOLOC == "No such node (loc)"
E_CSV == "Location::FromCsv"
E_LOCATIONS == "Insufficiently specified required parameter"
E_EXCEEDED == "Exceeded max route locations of"
E_TOOFEW == "Unsufficient number of locations provided"
E_NOCOSTING == "No edge/node costing provided"
E_NOOPTIONS == "No such node (costing_options.<mode>)"
E_NOFACTORY == "No costing method found for"
E_NOMAXDIST == "No such node (service_limits.max_distance.<mode>)"
E_UNCONNECTED == "Locations are in unconnected regions. Go check/edit the map at osm.org"
E_TOOFAR == "Path distance exceeds the max distance limit."
E_SEARCH == "loki::Search"

\* ------------------------------------------------------------ from_request
Ok(pt) == [threw |-> FALSE, msg |-> "", arg |-> "", pt |-> pt]
Thrown(msg, arg) == [threw |-> TRUE, msg |-> msg, arg |-> arg, pt |-> EmptyPt]

\* the request's property tree; for VIAROUTE `loc` is rewritten to `locations`
from_request(action, request) ==
  IF request.json = "bad" THEN Thrown(E_JSON, "")
  ELSE
    LET pt == [hasLocations |-> request.hasLocations, locations |-> request.locations,
               hasLoc |-> request.hasLoc, loc |-> request.loc,
               costing |-> request.costing, hasOptions |-> request.hasOptions,
               options |-> request.options, osrm |-> request.osrm]
    IN IF action = "VIAROUTE"
       THEN IF ~pt.hasLoc THEN Thrown(E_NOLOC, "loc")
            ELSE IF \E i \in 1..Len(pt.loc) : pt.loc[i] = Malformed THEN Thrown(E_CSV, "")
            ELSE Ok([pt EXCEPT !.hasLocations = TRUE, !.locations = pt.loc,
                               !.hasLoc = FALSE, !.loc = <<>>])
       ELSE Ok(pt)

\* ------------------------------------------------------------ init_request
\* the loop over request.get_child("locations"): FromPtree throws on an entry
\* without coordinates, the limit is tested after every push_back
RECURSIVE push_locations(_, _, _, _)
push_locations(locs, entries, i, action) ==
  IF i > Len(entries) THEN [locations |-> locs, threw |-> FALSE]
  ELSE IF entries[i] = Malformed THEN [locations |-> locs, threw |-> TRUE]
  ELSE LET pushed == Append(locs, entries[i])
       IN IF action # "LOCATE" /\ Len(pushed) > max_route_locations
          THEN [locations |-> pushed, threw |-> TRUE]
          ELSE push_locations(pushed, entries, i + 1, action)

\* the try block on the locations: every exception inside it, the limit's
\* and the minimum's included, is caught and replaced by one message
init_locations(locs, action, pt) ==
  LET r == IF pt.hasLocations THEN push_locations(locs, pt.locations, 1, action)
           ELSE [locations |-> locs, threw |-> TRUE]
      threw == r.threw \/ Len(r.locations) < 1
  IN [locations |-> r.locations, threw |-> threw,
      msg |-> IF threw THEN E_LOCATIONS ELSE "",
      arg |-> IF threw THEN (IF action = "VIAROUTE" THEN "loc" ELSE "locations") ELSE ""]

\* the loop of put_child calls: each top-level child of the request's option
\* tree replaces the child of that name in the configured tree
RECURSIVE put_children(_, _, _)
put_children(config_costing, request_costing, keys) ==
  IF keys = {} THEN config_costing
  ELSE LET key == CHOOSE x \in keys : TRUE
           put == {e \in config_costing : Top(e[1]) # key}
                    \cup {e \in request_costing : Top(e[1]) = key}
       IN put_children(put, request_costing, keys \ {key})

\* config_costing as handed to factory.Create
merged_options(config_costing, has, request_costing) ==
  IF has THEN put_children(config_costing, request_costing,
                           {Top(e[1]) : e \in request_costing})
  ELSE config_costing

\* init_costing with a default: a request without costing is costed as auto
init_costing_default(cost0, pt) ==
  LET costing == IF pt.costing = "" THEN "auto"
                 ELSE IF pt.costing = "multimodal" THEN "pedestrian" ELSE pt.costing
  IN IF costing \notin costing_options
       THEN [threw |-> TRUE, msg |-> E_NOOPTIONS, arg |-> costing, cost |-> cost0, created |-> "", options |-> {}]
     ELSE IF costing \notin Registered
       THEN [threw |-> TRUE, msg |-> E_NOFACTORY, arg |-> costing, cost |-> cost0, created |-> "", options |-> {}]
     ELSE [threw |-> FALSE, msg |-> "", arg |-> "", cost |-> costing, created |-> costing,
           options |-> merged_options(costing_defaults[costing], pt.hasOptions, pt.options)]

\* init_costing without the lookups: the cost is created for whatever mode
\* the request names, with empty options
init_costing_nolookup(cost0, pt) ==
  IF pt.costing = "" THEN [threw |-> TRUE, msg |-> E_NOCOSTING, arg |-> "", cost |-> cost0, created |-> "", options |-> {}]
  ELSE LET costing == IF pt.costing = "multimodal" THEN "pedestrian" ELSE pt.costing
       IN [threw |-> FALSE, msg |-> "", arg |-> "", cost |-> costing, created |-> costing,
           options |-> pt.options]

\* init_costing that creates a cost only when the worker holds none, and
\* otherwise keeps the one an earlier request left behind
init_costing_cached(cost0, pt) ==
  IF pt.costing = "" THEN [threw |-> TRUE, msg |-> E_NOCOSTING, arg |-> "", cost |-> cost0, created |-> "", options |-> {}]
  ELSE
    LET costing == IF pt.costing = "multimodal" THEN "pedestrian" ELSE pt.costing
    IN IF costing \notin costing_options
         THEN [threw |-> TRUE, msg |-> E_NOOPTIONS, arg |-> costing, cost |-> cost0, created |-> "", options |-> {}]
       ELSE IF costing \notin Registered
         THEN [threw |-> TRUE, msg |-> E_NOFACTORY, arg |-> costing, cost |-> cost0, created |-> "", options |-> {}]
       ELSE IF cost0 # "null"
         THEN [threw |-> FALSE, msg |-> "", arg |-> "", cost |-> cost0, created |-> "", options |-> {}]
       ELSE [threw |-> FALSE, msg |-> "", arg |-> "", cost |-> costing, created |-> costing,
             options |-> merged_options(costing_defaults[costing], pt.hasOptions, pt.options)]

\* the costing method of the request and the cost the factory creates
init_costing(cost0, pt) ==
  IF pt.costing = "" THEN [threw |-> TRUE, msg |-> E_NOCOSTING, arg |-> "", cost |-> cost0, created |-> "", options |-> {}]
  ELSE
    LET costing == IF pt.costing = "multimodal" THEN "pedestrian" ELSE pt.costing
    IN IF costing \notin costing_options
         THEN [threw |-> TRUE, msg |-> E_NOOPTIONS, arg |-> costing, cost |-> cost0, created |-> "", options |-> {}]
       ELSE IF costing \notin Registered
         THEN [threw |-> TRUE, msg |-> E_NOFACTORY, arg |-> costing, cost |-> cost0, created |-> "", options |-> {}]
       ELSE [threw |-> FALSE, msg |-> "", arg |-> "", cost |-> costing, created |-> costing,
             options |-> merged_options(costing_defaults[costing], pt.hasOptions, pt.options)]

init_request_result(locs0, cost0, action, pt) ==
  LET l == init_locations(locs0, action, pt)
      c == init_costing(cost0, pt)
  IN IF l.threw
       THEN [threw |-> TRUE, msg |-> l.msg, arg |-> l.arg, locations |-> l.locations,
             cost |-> cost0, created |-> "", options |-> {}]
     ELSE [threw |-> c.threw, msg |-> c.msg, arg |-> c.arg, locations |-> l.locations,
           cost |-> c.cost, created |-> c.created, options |-> c.options]

\* ------------------------------------------------------------------- route
\* preflight that tests the pair at i only and never advances
preflight_first(locs, max_distance, i) ==
  IF i > Len(locs) THEN [verdict |-> "ok", conn |-> 0, dist |-> 0]
  ELSE IF ~AreConnected(locs[i - 1], locs[i])
         THEN [verdict |-> "unconnected", conn |-> 1, dist |-> 0]
  ELSE IF path_distance(locs[i - 1], locs[i]) > max_distance
         THEN [verdict |-> "toofar", conn |-> 1, dist |-> 1]
  ELSE [verdict |-> "ok", conn |-> Len(locs) - 1, dist |-> Len(locs) - 1]

\* the loop over consecutive pairs; i is the index of `location`
RECURSIVE preflight(_, _, _)
preflight(locs, max_distance, i) ==
  IF i > Len(locs) THEN [verdict |-> "ok", conn |-> 0, dist |-> 0]
  ELSE IF ~AreConnected(locs[i - 1], locs[i])
         THEN [verdict |-> "unconnected", conn |-> 1, dist |-> 0]
  ELSE IF path_distance(locs[i - 1], locs[i]) > max_distance
         THEN [verdict |-> "toofar", conn |-> 1, dist |-> 1]
  ELSE LET r == preflight(locs, max_distance, i + 1)
       IN [verdict |-> r.verdict, conn |-> r.conn + 1, dist |-> r.dist + 1]

\* correlation loop that catches a failed search and goes on, as locate does
RECURSIVE correlate_skip(_, _, _)
correlate_skip(locs, c, i) ==
  IF i > Len(locs) THEN [threw |-> FALSE, calls |-> 0, correlated |-> <<>>]
  ELSE LET r == correlate_skip(locs, c, i + 1)
       IN [threw |-> FALSE, calls |-> r.calls + 1,
           correlated |-> IF SearchOk(locs[i], c) THEN <<locs[i]>> \o r.correlated
                          ELSE r.correlated]

\* the correlation loop of route: an exception of loki::Search leaves it
RECURSIVE correlate(_, _, _)
correlate(locs, c, i) ==
  IF i > Len(locs) THEN [threw |-> FALSE, calls |-> 0, correlated |-> <<>>]
  ELSE IF ~SearchOk(locs[i], c) THEN [threw |-> TRUE, calls |-> 1, correlated |-> <<>>]
  ELSE LET r == correlate(locs, c, i + 1)
       IN [threw |-> r.threw, calls |-> r.calls + 1,
           correlated |-> IF r.threw THEN <<>> ELSE <<locs[i]>> \o r.correlated]

\* route that hands the request on although a search threw
route_result_forward(locs, c, action, pt) ==
  IF pt.costing \notin DOMAIN max_distance_cfg
    THEN [response |-> http_response(400, E_NOMAXDIST, pt.costing),
          conn |-> 0, dist |-> 0, calls |-> 0]
  ELSE
    LET p == preflight(locs, max_distance_cfg[pt.costing], 2)
        s == correlate(locs, c, 1)
    IN IF p.verdict = "unconnected"
         THEN [response |-> http_response(404, E_UNCONNECTED, ""),
               conn |-> p.conn, dist |-> p.dist, calls |-> 0]
       ELSE IF p.verdict = "toofar"
         THEN [response |-> http_response(412, E_TOOFAR, ""),
               conn |-> p.conn, dist |-> p.dist, calls |-> 0]
       ELSE [response |-> [NoResponse EXCEPT !.intermediate = TRUE,
                                             !.correlated = s.correlated,
                                             !.edges = [k \in 1..Len(s.correlated) |->
                                                          Edges(s.correlated[k], c)],
                                             !.osrm = (pt.osrm \/ action = "VIAROUTE"),
                                             !.payload = pt],
             conn |-> p.conn, dist |-> p.dist, calls |-> s.calls]

route_result(locs, c, action, pt) ==
  IF pt.costing \notin DOMAIN max_distance_cfg
    THEN [response |-> http_response(400, E_NOMAXDIST, pt.costing),
          conn |-> 0, dist |-> 0, calls |-> 0]
  ELSE
    LET p == preflight(locs, max_distance_cfg[pt.costing], 2)
        s == correlate(locs, c, 1)
    IN IF p.verdict = "unconnected"
         THEN [response |-> http_response(404, E_UNCONNECTED, ""),
               conn |-> p.conn, dist |-> p.dist, calls |-> 0]
       ELSE IF p.verdict = "toofar"
         THEN [response |-> http_response(412, E_TOOFAR, ""),
               conn |-> p.conn, dist |-> p.dist, calls |-> 0]
       ELSE IF s.threw
         THEN [response |-> http_response(400, E_SEARCH, ""),
               conn |-> p.conn, dist |-> p.dist, calls |-> s.calls]
       ELSE [response |-> [NoResponse EXCEPT !.intermediate = TRUE,
                                             !.correlated = s.correlated,
                                             !.edges = [k \in 1..Len(s.correlated) |->
                                                          Edges(s.correlated[k], c)],
                                             !.osrm = (pt.osrm \/ action = "VIAROUTE"),
                                             !.payload = pt],
             conn |-> p.conn, dist |-> p.dist, calls |-> s.calls]

\* ------------------------------------------------------------------ locate
\* locate loop without the per-location catch: it ends at the first failure
RECURSIVE locate_entries_stop(_, _, _)
locate_entries_stop(locs, c, i) ==
  IF i > Len(locs) THEN <<>>
  ELSE IF SearchOk(locs[i], c)
    THEN <<[input |-> locs[i], ways |-> "ways", reason |-> FALSE]>>
         \o locate_entries_stop(locs, c, i + 1)
    ELSE <<[input |-> locs[i], ways |-> "null", reason |-> TRUE]>>

\* serialize(correlated, reader) or serialize(latlng, reason) per location
RECURSIVE locate_entries(_, _, _)
locate_entries(locs, c, i) ==
  IF i > Len(locs) THEN <<>>
  ELSE <<IF SearchOk(locs[i], c)
           THEN [input |-> locs[i], ways |-> "ways", reason |-> FALSE]
           ELSE [input |-> locs[i], ways |-> "null", reason |-> TRUE]>>
       \o locate_entries(locs, c, i + 1)

locate_result(locs, c) ==
  [response |-> [NoResponse EXCEPT !.code = 200, !.entries = locate_entries(locs, c, 1)],
   calls |-> Len(locs)]

\* tiles the searches of one request bring into the reader's cache
Loaded(locs, calls) == {TileId(locs[k]) : k \in 1..calls}

\* ---------------------------------------------------------- serialize_edges
\* longest candidate edge list of one correlated location
MaxEdges == 3
\* directed edges loki::Search may hand back as candidates
EdgeIds == {"e1", "e2", "e3", "e4"}
\* edge_info->wayid(): e1 and e2 are the two directions of way 7
wayid(e) == CASE e = "e1" -> 7 [] e = "e2" -> 7 [] e = "e3" -> 8 [] OTHER -> 0
\* the tile or edge info lookup of the edge throws: e4 is not in the graph
LookupThrows(e) == e = "e4"
Vertices == {"v1", "v2"}
EdgeSeqs == UNION {[1..n -> EdgeIds] : n \in 0..MaxEdges}
\* PathLocation: candidate edges, correlated vertex, input latlng
PathLocations == [edges : EdgeSeqs, vertex : Vertices, latlng : {"A", "C"}]
NoLocation == [edges |-> <<>>, vertex |-> "", latlng |-> ""]

\* the loop of serialize_edges from edge i on; ids is the multimap of
\* (way id, vertex) pairs already serialized, array the json array so far
RECURSIVE serialize_loop(_, _, _, _)
serialize_loop(loc, i, ids, array) ==
  IF i > Len(loc.edges) THEN array
  ELSE
    LET e == loc.edges[i]
        duplicate == \E id \in ids : id[1] = wayid(e) /\ id[2] = loc.vertex
    IN IF LookupThrows(e) THEN serialize_loop(loc, i + 1, ids, array)
       ELSE IF duplicate THEN serialize_loop(loc, i + 1, ids, array)
       ELSE serialize_loop(loc, i + 1, ids \cup {<<wayid(e), loc.vertex>>},
                           Append(array, [way_id |-> wayid(e),
                                          correlated |-> loc.latlng]))

\* serialize_edges that reports every edge it could look up
serialize_edges_all(loc) ==
  LET found == SelectSeq(loc.edges, LAMBDA e : ~LookupThrows(e))
  IN [k \in 1..Len(found) |-> [way_id |-> wayid(found[k]), correlated |-> loc.latlng]]

serialize_edges(loc) == serialize_loop(loc, 1, {}, <<>>)

\* ------------------------------------------------------------------- state
VARIABLES
  pc,          \* "idle", "parsed", "inited", "responded": position in work()
  request,     \* the http request being handled
  action,      \* its ACTION_TYPE
  request_pt,  \* the property tree from_request built
  locations,   \* loki_worker_t::locations
  cost,        \* loki_worker_t::cost, "null" before the first Create
  tiles,       \* tiles cached by loki_worker_t::reader
  response,    \* worker_t::result_t returned by work()
  searches,    \* loki::Search calls made for this request
  connChecks,  \* AreConnected calls made for this request
  distChecks,  \* distance comparisons made for this request
  created,     \* mode of the cost factory.Create built for this request
  config_costing, \* option tree that cost was created from
  prev         \* how the previous request ended: "none", "clean", "partial"
               \* (it left locations behind) or "evicted" (cleanup cleared the cache)

\* state of one serialize_edges call
VARIABLES
  location,    \* the PathLocation handed to serialize_edges
  ways,        \* the json array it returned
  spc          \* "off", "call" (not yet run) or "done": position in serialize_edges

svars == <<location, ways, spc>>

vars == <<pc, request, action, request_pt, locations, cost, tiles, response,
          searches, connChecks, distChecks, created, config_costing, prev, svars>>

NoPt == Thrown("", "").pt

Init ==
  /\ pc = "idle"
  /\ request = NoRequest
  /\ action = ""
  /\ request_pt = NoPt
  /\ locations = <<>>
  /\ cost = "null"
  /\ tiles = {}
  /\ response = NoResponse
  /\ searches = 0
  /\ connChecks = 0
  /\ distChecks = 0
  /\ created = ""
  /\ config_costing = {}
  /\ prev = "none"
  /\ location = NoLocation
  /\ ways = <<>>
  /\ spc = "off"

\* work() that indexes the ACTION table: a path it does not hold yields
\* the first ACTION_TYPE, ROUTE
work_index ==
  /\ pc = "idle"
  /\ \E r \in Requests :
       LET a == IF r.path \in DOMAIN ACTION_TABLE THEN ACTION_TABLE[r.path] ELSE "ROUTE"
           f == from_request(a, r)
       IN /\ request' = r
          /\ action' = a
          /\ request_pt' = f.pt
          /\ IF f.threw
               THEN /\ response' = http_response(400, f.msg, f.arg)
                    /\ pc' = "responded"
               ELSE /\ response' = NoResponse
                    /\ pc' = "parsed"
  /\ UNCHANGED <<locations, cost, tiles, searches, connChecks, distChecks, created,
                 config_costing, prev>>
  /\ UNCHANGED svars

\* work(), up to the call of init_request: the path is looked up, the
\* request normalised; an unknown path is answered 404, an exception 400
work ==
  /\ pc = "idle"
  /\ \E r \in Requests :
       /\ request' = r
       /\ IF r.path \notin DOMAIN ACTION_TABLE
            THEN /\ action' = ""
                 /\ request_pt' = NoPt
                 /\ response' = http_response(404, E_NOTFOUND, "")
                 /\ pc' = "responded"
          ELSE LET f == from_request(ACTION_TABLE[r.path], r)
               IN /\ action' = ACTION_TABLE[r.path]
                  /\ request_pt' = f.pt
                  /\ IF f.threw
                       THEN /\ response' = http_response(400, f.msg, f.arg)
                            /\ pc' = "responded"
                       ELSE /\ response' = NoResponse
                            /\ pc' = "parsed"
  /\ UNCHANGED <<locations, cost, tiles, searches, connChecks, distChecks, created,
                 config_costing, prev>>
  /\ UNCHANGED svars

\* init_request(), and the catch of work() around it
init_request ==
  /\ pc = "parsed"
  /\ LET r == init_request_result(locations, cost, action, request_pt)
     IN /\ locations' = r.locations
        /\ cost' = r.cost
        /\ created' = r.created
        /\ config_costing' = r.options
        /\ IF r.threw
             THEN /\ response' = http_response(400, r.msg, r.arg)
                  /\ pc' = "responded"
             ELSE /\ response' = NoResponse
                  /\ pc' = "inited"
  /\ UNCHANGED <<request, action, request_pt, tiles, searches, connChecks, distChecks, prev>>
  /\ UNCHANGED svars

\* case ROUTE, case VIAROUTE: route()
route ==
  /\ pc = "inited"
  /\ action \in {"ROUTE", "VIAROUTE"}
  /\ LET r == route_result(locations, cost, action, request_pt)
     IN /\ response' = r.response
        /\ searches' = r.calls
        /\ connChecks' = r.conn
        /\ distChecks' = r.dist
        /\ tiles' = tiles \cup Loaded(locations, r.calls)
  /\ pc' = "responded"
  /\ UNCHANGED <<request, action, request_pt, locations, cost, created, config_costing, prev>>
  /\ UNCHANGED svars

\* case LOCATE: locate()
locate ==
  /\ pc = "inited"
  /\ action = "LOCATE"
  /\ LET r == locate_result(locations, cost)
     IN /\ response' = r.response
        /\ searches' = r.calls
        /\ tiles' = tiles \cup Loaded(locations, r.calls)
  /\ pc' = "responded"
  /\ UNCHANGED <<request, action, request_pt, locations, cost, connChecks, distChecks,
                 created, config_costing, prev>>
  /\ UNCHANGED svars

\* a switch that sends NEAREST to locate()
not_implemented_locate ==
  /\ pc = "inited"
  /\ action \notin {"ROUTE", "VIAROUTE", "LOCATE"}
  /\ LET r == locate_result(locations, cost)
     IN /\ response' = r.response
        /\ searches' = r.calls
        /\ tiles' = tiles \cup Loaded(locations, r.calls)
  /\ pc' = "responded"
  /\ UNCHANGED <<request, action, request_pt, locations, cost, connChecks, distChecks,
                 created, config_costing, prev>>
  /\ UNCHANGED svars

\* the switch has no case for NEAREST: 501 Not Implemented
not_implemented ==
  /\ pc = "inited"
  /\ action \notin {"ROUTE", "VIAROUTE", "LOCATE"}
  /\ response' = http_response(501, "", "")
  /\ pc' = "responded"
  /\ UNCHANGED <<request, action, request_pt, locations, cost, tiles, searches,
                 connChecks, distChecks, created, config_costing, prev>>
  /\ UNCHANGED svars

\* cleanup that clears the locations only together with the tile cache
cleanup_keep ==
  /\ pc = "responded"
  /\ locations' = IF OverCommitted(tiles) THEN <<>> ELSE locations
  /\ tiles' = IF OverCommitted(tiles) THEN {} ELSE tiles
  /\ prev' = IF OverCommitted(tiles) THEN "evicted"
              ELSE IF response.msg = E_LOCATIONS /\ locations # <<>> THEN "partial"
              ELSE "clean"
  /\ pc' = "idle"
  /\ request' = NoRequest
  /\ action' = ""
  /\ request_pt' = NoPt
  /\ response' = NoResponse
  /\ searches' = 0
  /\ connChecks' = 0
  /\ distChecks' = 0
  /\ created' = ""
  /\ config_costing' = {}
  /\ UNCHANGED cost
  /\ UNCHANGED svars

\* cleanup that never clears the reader
cleanup_noclear ==
  /\ pc = "responded"
  /\ locations' = <<>>
  /\ tiles' = tiles
  /\ prev' = IF OverCommitted(tiles) THEN "evicted"
              ELSE IF response.msg = E_LOCATIONS /\ locations # <<>> THEN "partial"
              ELSE "clean"
  /\ pc' = "idle"
  /\ request' = NoRequest
  /\ action' = ""
  /\ request_pt' = NoPt
  /\ response' = NoResponse
  /\ searches' = 0
  /\ connChecks' = 0
  /\ distChecks' = 0
  /\ created' = ""
  /\ config_costing' = {}
  /\ UNCHANGED cost
  /\ UNCHANGED svars

\* cleanup(), called by the worker loop once the result is sent
cleanup ==
  /\ pc = "responded"
  /\ locations' = <<>>
  /\ tiles' = IF OverCommitted(tiles) THEN {} ELSE tiles
  /\ prev' = IF OverCommitted(tiles) THEN "evicted"
              ELSE IF response.msg = E_LOCATIONS /\ locations # <<>> THEN "partial"
              ELSE "clean"
  /\ pc' = "idle"
  /\ request' = NoRequest
  /\ action' = ""
  /\ request_pt' = NoPt
  /\ response' = NoResponse
  /\ searches' = 0
  /\ connChecks' = 0
  /\ distChecks' = 0
  /\ created' = ""
  /\ config_costing' = {}
  /\ UNCHANGED cost
  /\ UNCHANGED svars

Next == work \/ init_request \/ route \/ locate \/ not_implemented \/ cleanup

Spec == Init /\ [][Next]_vars

\* ------------------------------------------- serialize_edges on its own
wvars == <<pc, request, action, request_pt, locations, cost, tiles, response,
           searches, connChecks, distChecks, created, config_costing, prev>>

\* an idle worker and one PathLocation about to be serialized
SerializeInit ==
  /\ pc = "idle"
  /\ request = NoRequest
  /\ action = ""
  /\ request_pt = NoPt
  /\ locations = <<>>
  /\ cost = "null"
  /\ tiles = {}
  /\ response = NoResponse
  /\ searches = 0
  /\ connChecks = 0
  /\ distChecks = 0
  /\ created = ""
  /\ config_costing = {}
  /\ prev = "none"
  /\ location \in PathLocations
  /\ ways = <<>>
  /\ spc = "call"

\* serialize_edges(location, reader)
serialize ==
  /\ spc = "call"
  /\ ways' = serialize_edges(location)
  /\ spc' = "done"
  /\ UNCHANGED <<location, wvars>>

SerializeNext == serialize

SerializeSpec == SerializeInit /\ [][SerializeNext]_vars

\* ----------------------------------------------------- request predicates
RouteType == {"ROUTE", "VIAROUTE"}
\* the location list the caller sent: `loc` for /viaroute, else `locations`
RequestLocs(r) == IF r.path = "/viaroute" THEN r.loc ELSE r.locations
HasLocs(r) == IF r.path = "/viaroute" THEN r.hasLoc ELSE r.hasLocations
\* the payload parses and carries at least one location, all with coordinates
WellFormed(r) ==
  /\ r.json = "ok"
  /\ HasLocs(r)
  /\ Len(RequestLocs(r)) >= 1
  /\ \A i \in 1..Len(RequestLocs(r)) : RequestLocs(r)[i] \in Points
\* the locations pass init_request's validation for the request's action
LocationsValid(r) ==
  /\ WellFormed(r)
  /\ (r.path # "/locate" => Len(RequestLocs(r)) <= max_route_locations)
\* the costing method a mode name stands for
Resolve(c) == IF c = "multimodal" THEN "pedestrian" ELSE c
CostingValid(r) == r.costing # "" /\ Resolve(r.costing) \in costing_options \cap Registered

\* what a newly constructed worker answers to request r
FreshResponse(r) ==
  IF r.path \notin DOMAIN ACTION_TABLE THEN http_response(404, E_NOTFOUND, "")
  ELSE
    LET a == ACTION_TABLE[r.path]
        f == from_request(a, r)
        i == init_request_result(<<>>, "null", a, f.pt)
    IN IF f.threw THEN http_response(400, f.msg, f.arg)
       ELSE IF i.threw THEN http_response(400, i.msg, i.arg)
       ELSE IF a \in RouteType THEN route_result(i.locations, i.cost, a, f.pt).response
       ELSE IF a = "LOCATE" THEN locate_result(i.locations, i.cost).response
       ELSE http_response(501, "", "")

\* ------------------------------------------------------------------ claims

\* C1: a locate request with well-formed locations and no `costing` is not
\* rejected: every location is searched and the answer is 200 with one entry
\* per location.
C1_LocateWithoutCosting ==
  (pc = "responded" /\ action = "LOCATE" /\ WellFormed(request) /\ request.costing = "")
    => /\ response.code = 200
       /\ Len(response.entries) = Len(request.locations)
       /\ searches = Len(request.locations)

\* C2: a locate request reaches correlation exactly when its locations and
\* costing are valid, and then the response array has one entry per request
\* location, entry i describing location i, whatever the worker did before.
C2_LocateOneEntryPerLocation ==
  (pc = "responded" /\ action = "LOCATE")
    => /\ (response.code = 200) <=> (LocationsValid(request) /\ CostingValid(request))
       /\ response.code = 200 =>
            /\ Len(response.entries) = Len(request.locations)
            /\ \A i \in 1..Len(request.locations) :
                 response.entries[i].input = request.locations[i]

C2_Witness ==
  /\ pc = "responded" /\ action = "LOCATE" /\ prev = "partial"
  /\ Len(response.entries) >= 2
  /\ \E i, j \in 1..Len(response.entries) :
       response.entries[i].reason /\ ~response.entries[j].reason

\* C3: in a locate request a failed search is not fatal: its entry has
\* ways = null and a reason, every later location is still searched, entries
\* of successful searches carry their ways, and the response is 200.
C3_LocateFailureNotFatal ==
  (pc = "responded" /\ action = "LOCATE" /\ LocationsValid(request) /\ CostingValid(request))
    => /\ response.code = 200
       /\ searches = Len(request.locations)
       /\ Len(response.entries) = Len(request.locations)
       /\ \A i \in 1..Len(request.locations) :
            IF SearchOk(request.locations[i], Resolve(request.costing))
              THEN response.entries[i].ways = "ways" /\ ~response.entries[i].reason
              ELSE response.entries[i].ways = "null" /\ response.entries[i].reason

C3_Witness ==
  /\ pc = "responded" /\ action = "LOCATE" /\ response.code = 200
  /\ \E i, j \in 1..Len(response.entries) :
       /\ i < j
       /\ response.entries[i].ways = "null" /\ response.entries[i].reason
       /\ response.entries[j].ways = "ways"

\* C4: route and viaroute correlate all or nothing: a failed search for any
\* location ends in a client error and nothing is forwarded; a forwarded
\* payload has correlated_i for every position i of the request's locations.
C4_RouteAllOrNothing ==
  /\ (pc = "responded" /\ action \in RouteType
        /\ \E i \in 1..Len(RequestLocs(request)) :
             ~SearchOk(RequestLocs(request)[i], Resolve(request.costing)))
       => (~response.intermediate /\ response.code \in 400..499)
  /\ response.intermediate
       => /\ pc = "responded" /\ action \in RouteType
          /\ response.code = 0
          /\ response.correlated = RequestLocs(request)
          /\ searches = Len(RequestLocs(request))

C4_Witness ==
  /\ pc = "responded" /\ action = "ROUTE"
  /\ response.code = 400 /\ response.msg = E_SEARCH
  /\ searches >= 2

\* C5: a route-type request with more locations than the configured maximum
\* is rejected with the 'exceeded max locations' message, which differs from
\* the malformed-location message, and no connectivity check or search runs.
C5_TooManyLocations ==
  (pc = "responded" /\ action \in RouteType /\ WellFormed(request)
     /\ Len(RequestLocs(request)) > max_route_locations)
    => /\ response.code = 400
       /\ response.msg = E_EXCEEDED
       /\ searches = 0 /\ connChecks = 0 /\ distChecks = 0

BadPair(r) ==
  \E i \in 2..Len(RequestLocs(r)) :
    LET a == RequestLocs(r)[i - 1]
        b == RequestLocs(r)[i]
    IN /\ a \in Points /\ b \in Points
       /\ \/ ~AreConnected(a, b)
          \/ /\ Resolve(r.costing) \in DOMAIN max_distance_cfg
             /\ path_distance(a, b) > max_distance_cfg[Resolve(r.costing)]

\* C8: preflight runs only for route-type actions and over every consecutive
\* pair before the first search: a bad pair means rejection, no search and
\* nothing forwarded; locate never runs a connectivity or distance check.
C8_PreflightBeforeSearch ==
  /\ (pc = "responded" /\ action \in RouteType /\ BadPair(request))
       => (~response.intermediate /\ response.code \in 400..499 /\ searches = 0)
  /\ (action \in RouteType /\ searches > 0)
       => (connChecks = Len(locations) - 1 /\ distChecks = Len(locations) - 1)
  /\ action \notin RouteType => (connChecks = 0 /\ distChecks = 0)

C8_Witness ==
  /\ pc = "responded" /\ action = "ROUTE"
  /\ response.code \in {404, 412}
  /\ connChecks >= 2 /\ searches = 0

\* C9: whenever the worker is idle again after a request, the locations are
\* empty and no cost model of that request is retained.
C9_IdleStateCleared ==
  (pc = "idle" /\ prev # "none") => (locations = <<>> /\ cost = "null")

\* C10: the response to a request depends only on the request, the
\* configuration and the collaborators' answers: a worker with any history
\* answers exactly what a newly constructed worker answers.
C10_HistoryIndependent ==
  pc = "responded" => response = FreshResponse(request)

C10_Witness ==
  /\ pc = "responded" /\ prev = "partial"
  /\ action = "ROUTE" /\ response.intermediate
  /\ Len(response.correlated) = max_route_locations

\* messages of the exceptions work() catches
Exceptions ==
  {E_JSON, E_NOLOC, E_CSV, E_LOCATIONS, E_NOCOSTING, E_NOOPTIONS, E_NOFACTORY,
   E_NOMAXDIST, E_SEARCH}

\* C11: every request ends with exactly one outgoing message and a return to
\* idle: a payload forwarded downstream, only for a route or viaroute request
\* whose validation, costing, preflight and every search succeeded, or a
\* client response; a failure raised in any stage becomes a 400 response with
\* its message and is never forwarded.
C11_OneOutcome ==
  /\ [](pc # "responded" => response = NoResponse)
  /\ [](pc = "responded" =>
          /\ response # NoResponse
          /\ IF response.intermediate
               THEN /\ action \in RouteType /\ response.code = 0
                    /\ LocationsValid(request) /\ CostingValid(request)
                    /\ ~BadPair(request)
                    /\ \A i \in 1..Len(RequestLocs(request)) :
                         SearchOk(RequestLocs(request)[i], Resolve(request.costing))
               ELSE response.code \in {200, 400, 404, 412, 501}
          /\ response.msg \in Exceptions
               => (response.code = 400 /\ ~response.intermediate))
  /\ [][pc = "responded" => pc' = "idle"]_vars

C11_Witness ==
  /\ pc = "responded" /\ action = "VIAROUTE"
  /\ response.code = 400 /\ response.msg = E_SEARCH /\ ~response.intermediate
  /\ searches = Len(locations)

C13_UnconnectedIs400 ==
  (pc = "responded" /\ action = "ROUTE" /\ LocationsValid(request)
     /\ request.costing \in costing_options
     /\ \A i \in 2..Len(request.locations) :
          ~AreConnected(request.locations[i - 1], request.locations[i]))
    => (Len(request.locations) >= 2
          => (response.code = 400 /\ response.msg = E_UNCONNECTED))

\* the mode's defaults overlaid by the override field by field at every depth
deep_merge(defaults, has, override) ==
  IF has THEN {e \in defaults : e[1] \notin {o[1] : o \in override}} \cup override
  ELSE defaults

\* C14: the options the cost is built from are the mode's defaults overlaid
\* by the request's override field by field at every depth: overridden fields
\* take the override's value, all others keep their default, siblings inside
\* a partly overridden group included; no override yields the defaults.
C14_MergeFieldByField ==
  created # "" =>
    config_costing = deep_merge(costing_defaults[created], request.hasOptions,
                                request.options)

\* C15: a route or viaroute payload is forwarded only if every position's
\* correlated location has at least one candidate edge.
C15_ForwardedHaveEdges ==
  (pc = "responded" /\ response.intermediate)
    => \A i \in 1..Len(response.edges) : response.edges[i] >= 1

\* C16: a request whose `locations` is present but empty is rejected with
\* the insufficient-number-of-locations error, not the malformed-location one.
C16_EmptyLocations ==
  (pc = "responded" /\ action \in {"ROUTE", "LOCATE", "NEAREST"}
     /\ request.json = "ok" /\ request.hasLocations /\ request.locations = <<>>)
    => (response.code = 400 /\ response.msg = E_TOOFEW)

\* C17: a route request with costing multimodal is handled as pedestrian
\* throughout: pedestrian cost from pedestrian defaults, distance compared
\* with pedestrian's maximum, so preflight accepts or rejects it exactly as
\* the same request with costing pedestrian.
C17_MultimodalAsPedestrian ==
  (pc = "responded" /\ action \in RouteType /\ LocationsValid(request)
     /\ request.costing = "multimodal")
    => LET r == FreshResponse([request EXCEPT !.costing = "pedestrian"])
       IN /\ created = "pedestrian"
          /\ response.intermediate = r.intermediate
          /\ response.code = r.code
          /\ response.msg = r.msg

\* C18: a rejection for a missing location input or an entry without
\* coordinates names the caller's field: 'loc' for viaroute, 'locations' else.
C18_MalformedNamesField ==
  (pc = "responded" /\ action # "" /\ request.json = "ok"
     /\ (~HasLocs(request)
           \/ \E i \in 1..Len(RequestLocs(request)) : RequestLocs(request)[i] = Malformed))
    => /\ response.code = 400
       /\ response.msg = E_LOCATIONS
       /\ response.arg = IF action = "VIAROUTE" THEN "loc" ELSE "locations"

\* C19: the forwarded payload has the osrm flag exactly for viaroute, carries
\* every field of the normalised request and one correlation per location;
\* for viaroute `loc` is gone and `locations` holds one entry per loc value
\* in the same order.
C19_ForwardedPayload ==
  (pc = "responded" /\ response.intermediate)
    => /\ response.osrm <=> (action = "VIAROUTE")
       /\ response.payload.costing = request.costing
       /\ response.payload.options = request.options
       /\ Len(response.correlated) = Len(response.payload.locations)
       /\ ~response.payload.hasLoc
       /\ response.payload.locations = RequestLocs(request)

\* C20: cleanup runs after every request before the next is taken and
\* clears the tile cache whenever it is over its ceiling, so an idle worker's
\* cache is never over-committed.
C20_IdleCacheBounded ==
  /\ [](pc = "idle" => ~OverCommitted(tiles))
  /\ [][pc = "responded"
          => (pc' = "idle" /\ (OverCommitted(tiles) => tiles' = {}))]_vars
  /\ [][(request' # request /\ request' # NoRequest) => pc = "idle"]_vars

C20_Witness ==
  /\ pc = "idle" /\ prev = "evicted" /\ tiles = {}

\* position of the first edge of es that was looked up and lies on way w
FirstOccurrence(w, es) ==
  CHOOSE i \in 1..Len(es) :
    /\ ~LookupThrows(es[i]) /\ wayid(es[i]) = w
    /\ \A j \in 1..(i - 1) : LookupThrows(es[j]) \/ wayid(es[j]) # w

\* way ids of the edges of es whose lookup succeeded
FoundWays(es) == {wayid(es[i]) : i \in {k \in 1..Len(es) : ~LookupThrows(es[k])}}

\* C21: for any candidate edge list of one correlated location the reported
\* ways hold exactly one element per distinct way id among the edges whose
\* lookup succeeded, in order of first occurrence; an edge whose lookup fails
\* is skipped and the array is still returned.
C21_WaysDeduplicated ==
  spc = "done"
    => /\ Len(ways) = Cardinality(FoundWays(location.edges))
       /\ {ways[i].way_id : i \in 1..Len(ways)} = FoundWays(location.edges)
       /\ \A i, j \in 1..Len(ways) :
            i < j => FirstOccurrence(ways[i].way_id, location.edges)
                       < FirstOccurrence(ways[j].way_id, location.edges)

C21_Witness ==
  /\ spc = "done"
  /\ \E i, j, k \in 1..Len(location.edges) :
       /\ i < j
       /\ ~LookupThrows(location.edges[i]) /\ ~LookupThrows(location.edges[j])
       /\ location.edges[i] # location.edges[j]
       /\ wayid(location.edges[i]) = wayid(location.edges[j])
       /\ LookupThrows(location.edges[k])
  /\ Len(ways) = 1

\* C22: every search runs with the cost the same request's init_request
\* created from that request's costing mode (multimodal standing for
\* pedestrian): whatever requests came before, failed ones included, no
\* search is reached with a cost left over from an earlier request or with
\* none, although cleanup keeps the cost across requests.
C22_SearchUsesOwnCost ==
  /\ [](searches > 0 =>
          /\ cost # "null"
          /\ cost = created
          /\ created = Resolve(request.costing))
  /\ [][searches' > searches =>
          /\ pc = "inited"
          /\ cost # "null" /\ cost = created /\ created = Resolve(request.costing)
          /\ cost' = cost]_vars
  /\ [][pc = "responded" => cost' = cost]_vars

C22_Witness ==
  /\ pc = "responded" /\ prev = "partial"
  /\ action = "LOCATE" /\ request.costing = "multimodal"
  /\ searches >= 2 /\ cost = "pedestrian"

\* the 400 message a /nearest request fails validation with
NearestRejection(r) ==
  IF r.json # "ok" THEN E_JSON
  ELSE IF ~LocationsValid(r) THEN E_LOCATIONS
  ELSE IF r.costing = "" THEN E_NOCOSTING
  ELSE IF Resolve(r.costing) \notin costing_options THEN E_NOOPTIONS
  ELSE E_NOFACTORY

\* C23: a /nearest request never runs preflight or correlation: it is
\* validated like a route-type action (locations required and at most the
\* route maximum, costing required and resolved), a validation failure gives
\* the corresponding 400, and a valid request is answered 501 with an empty
\* body.
C23_NearestNotImplemented ==
  action = "NEAREST"
    => /\ searches = 0 /\ connChecks = 0 /\ distChecks = 0
       /\ pc = "responded" =>
            /\ ~response.intermediate
            /\ response.entries = <<>> /\ response.correlated = <<>>
            /\ IF request.json = "ok" /\ LocationsValid(request) /\ CostingValid(request)
                 THEN response.code = 501 /\ response.msg = ""
                 ELSE response.code = 400 /\ response.msg = NearestRejection(request)

C23_Witness ==
  /\ pc = "responded" /\ action = "NEAREST"
  /\ response.code = 501 /\ response.msg = ""
  /\ Len(locations) = max_route_locations
  /\ created = Resolve(request.costing)

====
